---- MODULE Spec2Model ----
(***************************************************************************)
(* A model of husky's cmd package (connection, frame codec, command set,   *)
(* execution queue) and of the router's main loop.                         *)
(*                                                                         *)
(* The module holds several specifications over one set of variables; each *)
(* specification moves the variables of one component and leaves the rest  *)
(* at their initial values:                                                *)
(*   Spec          one thread calling TCPConn.Write / TCPConn.Close        *)
(*   SpecRace      two threads whose Write / Close steps interleave        *)
(*   SpecFrame     writeMsg / ReadMessage over one socket                  *)
(*   SpecCmd       Bind, the service flags and Handle on one command set   *)
(*   SpecQueue     connection threads queueing items, main draining them   *)
(*   FairSpecQueue SpecQueue with a main thread that keeps being scheduled *)
(***************************************************************************)
EXTENDS Integers, Sequences, FiniteSets, TLC

(***************************************************************************)
(* Bounds of the model.                                                    *)
(***************************************************************************)
\* Capacity of a connection's send channel.  The code names it
\* sendQueueSize = 16 << 10 (gateway.go:43); the model checks a small
\* capacity, which is all the non-blocking select of Write depends on.
sendQueueSize == 2
\* How many times Close is called on one connection (single-thread spec).
MaxCloseCalls == 2
\* How many calls one thread issues in SpecRace.
MaxCalls == 2

(***************************************************************************)
(* Connections (type TCPConn, gateway.go:61-66).                           *)
(***************************************************************************)
Conns == {"c1", "c2"}
\* Byte slices handed to Write; Write stores them as they are.
Datas == {"d1", "d2"}
\* The two threads that use a connection: its I/O thread and the thread
\* that drains the execution queue.
Threads == {"io", "exec"}

NoErr == "nil"
ErrClosed == "connection is closed"
ErrBusy == "write too busy"
PanicCloseClosed == "panic: close of closed channel"
PanicSendClosed == "panic: send on closed channel"

VARIABLES
    isClose,     \* TCPConn.isClose, per connection
    send,        \* the buffered contents of the channel TCPConn.send
    sendClosed,  \* whether close(c.send) has been executed on the channel
    closeOps,    \* how many times close(c.send) (line 73) was executed
    closeCalls,  \* how many times Close was called (capped at MaxCloseCalls)
    ret,         \* the last call and what it returned
    panic,       \* the runtime panic that ended the process, or NoErr
    pc,          \* SpecRace: where each thread stands
    tconn,       \* SpecRace: the connection of the thread's current call
    tdata,       \* SpecRace: the argument of the thread's current Write
    ncalls,      \* SpecRace: calls issued by each thread
    wire,        \* SpecFrame: bytes written to the socket and not yet read
    peerEOF,     \* SpecFrame: the writing side has shut the socket down
    fcall,       \* SpecFrame: the last writeMsg or ReadMessage and its result
    serving,     \* SpecFrame: the connection's read loop is still running
    e,           \* CmdSet.e: message name -> cmdEntry
    services,    \* CmdSet.services: service name -> active
    sessions,    \* the session ids for which GetSession returns a session
    execQueue,   \* the execution queue: items (ctx, h, args) not yet drained
    hcall,       \* SpecCmd: the Handle call made by the latest step, if any
    registered,  \* SpecCmd: the names RegisterService was ever called for
    mainPc,      \* SpecQueue: where the main thread stands
    batch,       \* SpecQueue: items RunOnce took off the queue and has yet to run
    active,      \* SpecQueue: items whose handler has been called and not returned
    executed,    \* SpecQueue: items whose handler has been called, in call order
    logged,      \* SpecQueue: panics caught and logged by main
    nframes,     \* SpecQueue: frames received so far by each connection thread
    enqLog,      \* SpecQueue: the items in the order their frames were handled
    servers,     \* gRouter.servers: the server table, one entry per name
    gateways,    \* gRouter.gateways: connection -> name of the gateway's entry
    rcall,       \* the router handler called by the latest step and what it sent
    notified,    \* pairs <<G, S>>: G was sent FUNC_RegisterServiceInGateway{S}
    cdst,        \* SpecCopy: the value handed to DeepCopy as dst
    csrc,        \* SpecCopy: the value handed to DeepCopy as src
    ccall        \* SpecCopy: whether DeepCopy was called, and dst as it was before

connVars == <<isClose, send, sendClosed, closeOps, closeCalls, ret, panic>>
raceVars == <<pc, tconn, tdata, ncalls>>
frameVars == <<wire, peerEOF, fcall, serving>>
cmdVars == <<e, services, sessions, execQueue, hcall, registered>>
queueVars == <<mainPc, batch, active, executed, logged, nframes, enqLog>>
routerVars == <<servers, gateways, rcall, notified>>
copyVars == <<cdst, csrc, ccall>>
vars == <<connVars, raceVars, frameVars, cmdVars, queueVars, routerVars, copyVars>>
\* What each specification leaves alone.
connRest == <<raceVars, frameVars, cmdVars, queueVars, routerVars, copyVars>>
raceRest == <<frameVars, cmdVars, queueVars, routerVars, copyVars>>
frameRest == <<connVars, raceVars, cmdVars, queueVars, routerVars, copyVars>>
cmdRest == <<connVars, raceVars, frameVars, queueVars, routerVars, copyVars>>
queueRest == <<connVars, raceVars, frameVars, e, services, sessions, hcall,
               registered, routerVars, copyVars>>
routerRest == <<connVars, raceVars, frameVars, cmdVars, queueVars, copyVars>>
copyRest == <<connVars, raceVars, frameVars, cmdVars, queueVars, routerVars>>

NoCall == [op |-> "none", conn |-> "c1", err |-> NoErr]

InitConn ==
    /\ isClose = [c \in Conns |-> FALSE]
    /\ send = [c \in Conns |-> <<>>]
    /\ sendClosed = [c \in Conns |-> FALSE]
    /\ closeOps = [c \in Conns |-> 0]
    /\ closeCalls = [c \in Conns |-> 0]
    /\ ret = NoCall
    /\ panic = NoErr

InitRace ==
    /\ pc = [t \in Threads |-> "idle"]
    /\ tconn = [t \in Threads |-> "c1"]
    /\ tdata = [t \in Threads |-> "d1"]
    /\ ncalls = [t \in Threads |-> 0]

\* A call of the codec.  For writeMsg: mt and len are the type and the
\* payload length it was given, used the number of bytes it put on the
\* socket and pre the number of bytes that waited there before.  For
\* ReadMessage: mt and buf are the type and payload returned, len the
\* header's length field and used the number of bytes taken off the socket.
NoFrameCall ==
    [op |-> "none", mt |-> 0, len |-> 0, buf |-> <<>>, err |-> NoErr,
     used |-> 0, pre |-> 0]

InitFrame ==
    /\ wire = <<>>
    /\ peerEOF = FALSE
    /\ fcall = NoFrameCall
    /\ serving = TRUE

\* A Go map is a function on the set of its keys; a missing key reads as
\* the zero value.
EmptyMap == [k \in {} |-> FALSE]
MapGet(m, k, zero) == IF k \in DOMAIN m THEN m[k] ELSE zero
MapPut(m, k, v) == [x \in DOMAIN m \cup {k} |-> IF x = k THEN v ELSE m[x]]

NoCtx == [out |-> "c1", Ssid |-> "s1", isGateway |-> FALSE]
\* A Handle call: its arguments, the error it returned, the calls of
\* Session.Route it made (fwd) and the handlers it called itself (run).
NoHandle ==
    [op |-> "none", ctx |-> NoCtx, id |-> <<>>, data |-> "", err |-> NoErr,
     fwd |-> <<>>, run |-> <<>>]

\* defaultCmdSet, gateway.go:166-169, and an empty queue.
InitCmd ==
    /\ e = EmptyMap
    /\ services = EmptyMap
    /\ sessions = {}
    /\ execQueue = <<>>
    /\ hcall = NoHandle
    /\ registered = {}

\* main before its loop, part_000:14-30, and connection threads that have
\* read nothing.
InitQueue ==
    /\ mainPc = "loop"
    /\ batch = <<>>
    /\ active = {}
    /\ executed = <<>>
    /\ logged = 0
    /\ nframes = [c \in Conns |-> 0]
    /\ enqLog = <<>>

\* The router's tables before any server has registered, and no call yet.
NoArgs ==
    [ServerName |-> "", ServerAddr |-> <<>>, ServerData |-> "", ServerType |-> "",
     Weight |-> 0, ServerList |-> <<>>, Name |-> "", Data |-> ""]
NoRouterCall == [op |-> "none", out |-> "r1", args |-> NoArgs, sent |-> <<>>]
InitRouter ==
    /\ servers = <<>>
    /\ gateways = EmptyMap
    /\ rcall = NoRouterCall
    /\ notified = {}

\* reflect.ValueOf(nil): the zero Value, of kind Invalid.
Invalid == [kind |-> "invalid"]
\* No values built yet and DeepCopy not called.
InitCopy ==
    /\ cdst = Invalid
    /\ csrc = Invalid
    /\ ccall = [op |-> "none", dst |-> Invalid]

Init ==
    InitConn /\ InitRace /\ InitFrame /\ InitCmd /\ InitQueue /\ InitRouter /\ InitCopy

(***************************************************************************)
(* The statements of Close and Write, one operator per statement, on       *)
(* connection c.  A thread that calls the method alone runs them back to   *)
(* back (Close, Write below); SpecRace runs them one at a time.            *)
(***************************************************************************)
\* close(c.send), line 73: closing a closed channel panics.
ChanClose(c) ==
    /\ closeOps' = [closeOps EXCEPT ![c] = @ + 1]
    /\ IF sendClosed[c]
         THEN /\ panic' = PanicCloseClosed
              /\ UNCHANGED sendClosed
         ELSE /\ sendClosed' = [sendClosed EXCEPT ![c] = TRUE]
              /\ UNCHANGED panic

\* The send without the select: c.send <- data waits for room.
SelectSendBlocking(c, d, err) ==
    IF sendClosed[c]
      THEN /\ panic' = PanicSendClosed
           /\ err = NoErr
           /\ UNCHANGED send
      ELSE /\ Len(send[c]) < sendQueueSize
           /\ err = NoErr
           /\ send' = [send EXCEPT ![c] = Append(@, d)]
           /\ UNCHANGED panic

\* select { case c.send <- data: default: }, lines 137-141.  A send on a
\* closed channel panics; otherwise the send case is taken when the buffer
\* has room and the default case when it has none.  err is the error
\* Write returns.
SelectSend(c, d, err) ==
    IF sendClosed[c]
      THEN /\ panic' = PanicSendClosed
           /\ err = NoErr
           /\ UNCHANGED send
      ELSE IF Len(send[c]) < sendQueueSize
             THEN /\ err = NoErr
                  /\ send' = [send EXCEPT ![c] = Append(@, d)]
                  /\ UNCHANGED panic
             ELSE /\ err = ErrBusy
                  /\ UNCHANGED <<send, panic>>

(***************************************************************************)
(* Spec: one thread.  Each call is one action.                             *)
(***************************************************************************)
\* A Close that sets the flag but tests nothing: every call closes the channel.
CloseNoGuard(c) ==
    /\ panic = NoErr
    /\ closeCalls[c] < MaxCloseCalls
    /\ closeCalls' = [closeCalls EXCEPT ![c] = @ + 1]
    /\ isClose' = [isClose EXCEPT ![c] = TRUE]
    /\ ChanClose(c)
    /\ ret' = [op |-> "Close", conn |-> c, err |-> NoErr]
    /\ UNCHANGED <<send, connRest>>

\* TCPConn.Close, lines 68-74.
Close(c) ==
    /\ panic = NoErr
    /\ closeCalls[c] < MaxCloseCalls
    /\ closeCalls' = [closeCalls EXCEPT ![c] = @ + 1]
    /\ IF isClose[c]
         THEN UNCHANGED <<isClose, sendClosed, closeOps, panic>>
         ELSE /\ isClose' = [isClose EXCEPT ![c] = TRUE]
              /\ ChanClose(c)
    /\ ret' = [op |-> "Close", conn |-> c, err |-> NoErr]
    /\ UNCHANGED <<send, connRest>>

\* TCPConn.Write, lines 133-143.
Write(c, d) ==
    /\ panic = NoErr
    /\ IF isClose[c]
         THEN /\ ret' = [op |-> "Write", conn |-> c, err |-> ErrClosed]
              /\ UNCHANGED <<send, panic>>
         ELSE \E err \in {NoErr, ErrBusy} :
                /\ SelectSend(c, d, err)
                /\ ret' = [op |-> "Write", conn |-> c, err |-> err]
    /\ UNCHANGED <<isClose, sendClosed, closeOps, closeCalls, connRest>>

\* The connection's writer takes the oldest queued slice off c.send (a
\* receive also succeeds on a closed channel while it still holds data).
Recv(c) ==
    /\ panic = NoErr
    /\ send[c] # <<>>
    /\ send' = [send EXCEPT ![c] = Tail(@)]
    /\ ret' = [op |-> "Recv", conn |-> c, err |-> NoErr]
    /\ UNCHANGED <<isClose, sendClosed, closeOps, closeCalls, panic, connRest>>

Next ==
    \/ \E c \in Conns : Close(c)
    \/ \E c \in Conns, d \in Datas : Write(c, d)
    \/ \E c \in Conns : Recv(c)

Spec == Init /\ [][Next]_vars

\* C1: used from one thread, a connection's send channel is closed at most
\* once (the first Close closes it, a later Close changes nothing), and a
\* Write issued once the connection is closed returns the closed error and
\* leaves every send queue as it was.
C1_CloseOnceWriteFails ==
    /\ [](\A c \in Conns :
            /\ closeOps[c] <= 1
            /\ (closeOps[c] = 1) = isClose[c]
            /\ sendClosed[c] = isClose[c]
            /\ panic = NoErr)
    /\ [][\A c \in Conns :
            (isClose[c] /\ Close(c)) =>
                UNCHANGED <<isClose, send, sendClosed, closeOps, panic>>]_vars
    /\ [][\A c \in Conns, d \in Datas :
            (isClose[c] /\ Write(c, d)) =>
                (ret'.err = ErrClosed /\ send' = send /\ panic' = NoErr)]_vars

\* C1's case: Close was called twice on c1, and a Write on it then failed.
C1_Witness ==
    /\ closeCalls["c1"] = 2
    /\ closeOps["c1"] = 1
    /\ ret = [op |-> "Write", conn |-> "c1", err |-> ErrClosed]

\* C3: Write never waits.  On an open connection whose queue holds
\* sendQueueSize entries it returns the busy error and changes no queue;
\* with room left it appends the given bytes at the tail of that queue
\* only and returns no error.
C3_WriteNeverBlocks ==
    /\ [](panic = NoErr => \A c \in Conns, d \in Datas : ENABLED Write(c, d))
    /\ [][\A c \in Conns, d \in Datas :
            (~isClose[c] /\ Write(c, d)) =>
                IF Len(send[c]) >= sendQueueSize
                  THEN ret'.err = ErrBusy /\ send' = send
                  ELSE /\ ret'.err = NoErr
                       /\ send' = [send EXCEPT ![c] = Append(send[c], d)]]_vars

\* C3's case: a Write on the full, open c1 was refused while c2's queue
\* holds something else.
C3_Witness ==
    /\ ret = [op |-> "Write", conn |-> "c1", err |-> ErrBusy]
    /\ ~isClose["c1"]
    /\ Len(send["c1"]) = sendQueueSize
    /\ Len(send["c2"]) = 1

(***************************************************************************)
(* SpecRace: the I/O thread and the execution-queue thread call Close and  *)
(* Write on the same connections; every statement is a step of its own.    *)
(* TCPConn has no lock, so any interleaving of the statements can happen.  *)
(***************************************************************************)
CallClose(t, c) ==
    /\ panic = NoErr /\ pc[t] = "idle" /\ ncalls[t] < MaxCalls
    /\ pc' = [pc EXCEPT ![t] = "Close69"]
    /\ tconn' = [tconn EXCEPT ![t] = c]
    /\ ncalls' = [ncalls EXCEPT ![t] = @ + 1]
    /\ UNCHANGED <<connVars, tdata, raceRest>>

\* if c.isClose == true { return }, lines 69-71.
CloseTest(t) ==
    /\ panic = NoErr /\ pc[t] = "Close69"
    /\ IF isClose[tconn[t]]
         THEN /\ pc' = [pc EXCEPT ![t] = "idle"]
              /\ ret' = [op |-> "Close", conn |-> tconn[t], err |-> NoErr]
         ELSE /\ pc' = [pc EXCEPT ![t] = "Close72"]
              /\ UNCHANGED ret
    /\ UNCHANGED <<isClose, send, sendClosed, closeOps, closeCalls, panic,
                   tconn, tdata, ncalls, raceRest>>

\* c.isClose = true, line 72.
CloseSet(t) ==
    /\ panic = NoErr /\ pc[t] = "Close72"
    /\ isClose' = [isClose EXCEPT ![tconn[t]] = TRUE]
    /\ pc' = [pc EXCEPT ![t] = "Close73"]
    /\ UNCHANGED <<send, sendClosed, closeOps, closeCalls, ret, panic,
                   tconn, tdata, ncalls, raceRest>>

\* close(c.send), line 73.
CloseChan(t) ==
    /\ panic = NoErr /\ pc[t] = "Close73"
    /\ ChanClose(tconn[t])
    /\ pc' = [pc EXCEPT ![t] = "idle"]
    /\ ret' = [op |-> "Close", conn |-> tconn[t], err |-> NoErr]
    /\ UNCHANGED <<isClose, send, closeCalls, tconn, tdata, ncalls, raceRest>>

CallWrite(t, c, d) ==
    /\ panic = NoErr /\ pc[t] = "idle" /\ ncalls[t] < MaxCalls
    /\ pc' = [pc EXCEPT ![t] = "Write134"]
    /\ tconn' = [tconn EXCEPT ![t] = c]
    /\ tdata' = [tdata EXCEPT ![t] = d]
    /\ ncalls' = [ncalls EXCEPT ![t] = @ + 1]
    /\ UNCHANGED <<connVars, raceRest>>

\* if c.isClose == true { return errors.New(...) }, lines 134-136.
WriteTest(t) ==
    /\ panic = NoErr /\ pc[t] = "Write134"
    /\ IF isClose[tconn[t]]
         THEN /\ pc' = [pc EXCEPT ![t] = "idle"]
              /\ ret' = [op |-> "Write", conn |-> tconn[t], err |-> ErrClosed]
         ELSE /\ pc' = [pc EXCEPT ![t] = "Write137"]
              /\ UNCHANGED ret
    /\ UNCHANGED <<isClose, send, sendClosed, closeOps, closeCalls, panic,
                   tconn, tdata, ncalls, raceRest>>

\* The select and the return, lines 137-142.
WriteSelect(t) ==
    /\ panic = NoErr /\ pc[t] = "Write137"
    /\ \E err \in {NoErr, ErrBusy} :
          /\ SelectSend(tconn[t], tdata[t], err)
          /\ ret' = [op |-> "Write", conn |-> tconn[t], err |-> err]
    /\ pc' = [pc EXCEPT ![t] = "idle"]
    /\ UNCHANGED <<isClose, sendClosed, closeOps, closeCalls, tconn, tdata, ncalls, raceRest>>

NextRace ==
    \/ \E t \in Threads, c \in Conns : CallClose(t, c)
    \/ \E t \in Threads : CloseTest(t)
    \/ \E t \in Threads : CloseSet(t)
    \/ \E t \in Threads : CloseChan(t)
    \/ \E t \in Threads, c \in Conns, d \in Datas : CallWrite(t, c, d)
    \/ \E t \in Threads : WriteTest(t)
    \/ \E t \in Threads : WriteSelect(t)
    \/ \E c \in Conns : Recv(c)

SpecRace == Init /\ [][NextRace]_vars

\* C2: with the steps of Close and Write of two threads interleaved, the
\* send channel of a connection is closed at most once and no Write sends
\* on a channel that is already closed.
C2_ClosedOnceNoSendOnClosed ==
    /\ \A c \in Conns : closeOps[c] <= 1
    /\ panic = NoErr

(***************************************************************************)
(* SpecFrame: the frame codec.  A frame is [type][length hi][length lo]    *)
(* followed by the payload; bytes are the numbers 0..255.                  *)
(***************************************************************************)
maxMessageSize == 32768
RawMessage == 1
CloseMessage == 240
PingMessage == 241
PongMessage == 242
AuthMessage == 243

ErrTooLarge == "errTooLargeMessage"
ErrInvalidData == "invalid data"
ErrEOF == "EOF"

\* A writer adds a frame or a header to the socket only while at most this
\* many bytes wait there unread.
MaxAhead == 2

\* The payload lengths tried: the ends of the accepted range and both sides
\* of each.
PayloadLens == {0, 1, 300, maxMessageSize - 1, maxMessageSize, maxMessageSize + 1}
\* A payload of n bytes whose bytes differ from place to place.
Payload(n) == [i \in 1..n |-> (7 * i + 3) % 256]
\* The frame types handed to writeMsg.
SendTypes == {RawMessage, AuthMessage, PingMessage}
\* Headers a peer may put on the socket by hand: any type, and a length
\* field at the ends of the accepted range and outside it.  Two bytes
\* follow each.
HeaderTypes == {RawMessage, AuthMessage, CloseMessage, PingMessage, PongMessage, 2}
HeaderLens == {0, 2, maxMessageSize - 1, maxMessageSize, 65535}
Trailer == <<17, 34>>

\* binary.BigEndian.PutUint16(b, v) and binary.BigEndian.Uint16(b).
PutUint16(v) == <<(v \div 256) % 256, v % 256>>
Uint16(b) == b[1] * 256 + b[2]

\* A header whose length bytes are written low byte first.
NewMessageBytesLittleEndian(mt, data) ==
    IF Len(data) > maxMessageSize
      THEN [buf |-> <<>>, err |-> ErrTooLarge]
      ELSE [buf |-> <<mt % 256, (Len(data) % 65536) % 256,
                      ((Len(data) % 65536) \div 256) % 256>> \o data,
            err |-> NoErr]

\* TCPConn.NewMessageBytes, lines 110-121.
NewMessageBytes(mt, data) ==
    IF Len(data) > maxMessageSize
      THEN [buf |-> <<>>, err |-> ErrTooLarge]
      ELSE [buf |-> <<mt % 256>> \o PutUint16(Len(data) % 65536) \o data,
            err |-> NoErr]

\* io.ReadFull can return once the stream holds n bytes or has ended.
CanReadFull(stream, eof, n) == Len(stream) >= n \/ eof

\* TCPConn.ReadMessage, lines 80-108, on the bytes `stream` of the socket.
ReadMessageOf(stream) ==
    IF Len(stream) < 3
      THEN [op |-> "ReadMessage", mt |-> 0, len |-> 0, buf |-> <<>>,
            err |-> IF Len(stream) = 0 THEN ErrEOF ELSE "unexpected EOF",
            used |-> Len(stream), pre |-> Len(stream)]
      ELSE LET n == Uint16(SubSeq(stream, 2, 3))
               mt == stream[1]
               avail == Len(stream) - 3
               res(buf, err, used) ==
                   [op |-> "ReadMessage", mt |-> mt, len |-> n, buf |-> buf,
                    err |-> err, used |-> used, pre |-> Len(stream)]
           IN IF mt \in {PingMessage, PongMessage, CloseMessage}
                THEN res(<<>>, NoErr, 3)
                ELSE IF mt \in {AuthMessage, RawMessage} /\ n > 0 /\ n < maxMessageSize
                  THEN IF avail >= n
                         THEN res(SubSeq(stream, 4, 3 + n), NoErr, 3 + n)
                         ELSE res([i \in 1..n |->
                                     IF i <= avail THEN stream[3 + i] ELSE 0],
                                  ErrInvalidData, Len(stream))
                  ELSE res(<<>>, ErrInvalidData, 3)

\* Whether ReadMessage returns on `stream`, or waits for more bytes.
ReadReturns(stream, eof) ==
    /\ CanReadFull(stream, eof, 3)
    /\ Len(stream) >= 3 =>
         LET n == Uint16(SubSeq(stream, 2, 3))
         IN (stream[1] \in {AuthMessage, RawMessage} /\ n > 0 /\ n < maxMessageSize)
              => CanReadFull(stream, eof, 3 + n)

SocketHasRoom == Len(wire) <= MaxAhead

\* TCPConn.writeMsg, lines 145-151: encode, then write the frame to the socket.
writeMsg(mt, len) ==
    /\ SocketHasRoom
    /\ ~peerEOF
    /\ LET r == NewMessageBytes(mt, Payload(len))
       IN /\ fcall' = [op |-> "writeMsg", mt |-> mt, len |-> len, buf |-> <<>>,
                       err |-> r.err, used |-> Len(r.buf), pre |-> Len(wire)]
          /\ wire' = IF r.err = NoErr THEN wire \o r.buf ELSE wire
    /\ UNCHANGED <<peerEOF, serving, frameRest>>

\* A peer writes a header of its own making, then two more bytes.
PeerSend(mt, len) ==
    /\ SocketHasRoom
    /\ ~peerEOF
    /\ wire' = wire \o <<mt>> \o PutUint16(len) \o Trailer
    /\ fcall' = NoFrameCall
    /\ UNCHANGED <<peerEOF, serving, frameRest>>

\* The peer shuts its side down.
PeerClose ==
    /\ ~peerEOF
    /\ peerEOF' = TRUE
    /\ UNCHANGED <<wire, fcall, serving, frameRest>>

\* One call of ReadMessage on the socket, made by the connection's read
\* loop, which ends with the first call that returns an error.
ReadMessage ==
    /\ serving
    /\ ReadReturns(wire, peerEOF)
    /\ fcall' = ReadMessageOf(wire)
    /\ wire' = SubSeq(wire, fcall'.used + 1, Len(wire))
    /\ serving' = (fcall'.err = NoErr)
    /\ UNCHANGED <<peerEOF, frameRest>>

\* The peer connects again: a new socket and a new read loop.
Reconnect ==
    /\ ~serving
    /\ wire' = <<>>
    /\ peerEOF' = FALSE
    /\ fcall' = NoFrameCall
    /\ serving' = TRUE
    /\ UNCHANGED frameRest

NextFrame ==
    \/ \E mt \in SendTypes, len \in PayloadLens : writeMsg(mt, len)
    \/ \E mt \in HeaderTypes, len \in HeaderLens : PeerSend(mt, len)
    \/ PeerClose
    \/ ReadMessage
    \/ Reconnect

SpecFrame == Init /\ [][NextFrame]_vars

\* The last call was a writeMsg, on the empty socket, of a Raw or Auth
\* frame with a payload of 1 to 32767 bytes.
WroteFrame ==
    /\ fcall.op = "writeMsg"
    /\ fcall.pre = 0
    /\ fcall.mt \in {RawMessage, AuthMessage}
    /\ fcall.len \in 1..32767

\* C4: a frame that NewMessageBytes builds for type Raw or Auth and a payload
\* of 1 to 32767 bytes carries the payload's length, big-endian, in bytes 2
\* and 3, and ReadMessage on exactly those bytes returns the same type and
\* the same payload with no error, taking the whole frame off the socket.
C4_FrameRoundTrip ==
    /\ [](WroteFrame =>
              /\ fcall.err = NoErr
              /\ Len(wire) = fcall.len + 3
              /\ wire[1] = fcall.mt
              /\ wire[2] * 256 + wire[3] = fcall.len)
    /\ [][(WroteFrame /\ ReadMessage) =>
              /\ fcall'.mt = fcall.mt
              /\ fcall'.buf = Payload(fcall.len)
              /\ fcall'.err = NoErr
              /\ wire' = <<>>]_vars

\* C4's case: an Auth frame with the longest payload allowed was written to
\* the empty socket and read back.
C4_Witness ==
    /\ fcall.op = "ReadMessage"
    /\ fcall.mt = AuthMessage
    /\ fcall.err = NoErr
    /\ fcall.buf = Payload(32767)
    /\ fcall.pre = 32770
    /\ wire = <<>>

\* C5: NewMessageBytes refuses every payload of 32768 bytes or more with the
\* too-large error and builds nothing, and ReadMessage, on a Raw or Auth
\* header whose length field is 0 or at least 32768, returns an error having
\* read the three header bytes and nothing else.
C5_OversizeRejected ==
    /\ (fcall.op = "writeMsg" /\ fcall.len >= 32768) =>
          (fcall.err = ErrTooLarge /\ fcall.used = 0)
    /\ ( /\ fcall.op = "ReadMessage"
         /\ fcall.pre >= 3
         /\ fcall.mt \in {RawMessage, AuthMessage}
         /\ (fcall.len = 0 \/ fcall.len >= 32768)) =>
          (fcall.err # NoErr /\ fcall.used = 3 /\ fcall.buf = <<>>)

(***************************************************************************)
(* SpecCmd: the command set.  Message identifiers and names are sequences  *)
(* of one-character strings, so that they can be split and matched.        *)
(***************************************************************************)
\* How many items the execution queue holds before callers of Handle wait.
MaxQueue == 1

Letters ==
    {"a", "b", "c", "d", "e", "f", "g", "h", "i", "j", "k", "l", "m",
     "n", "o", "p", "q", "r", "s", "t", "u", "v", "w", "x", "y", "z",
     "A", "B", "C", "D", "E", "F", "G", "H", "I", "J", "K", "L", "M",
     "N", "O", "P", "Q", "R", "S", "T", "U", "V", "W", "X", "Y", "Z"}
Digits == {"0", "1", "2", "3", "4", "5", "6", "7", "8", "9"}
Alnum == Letters \cup Digits

\* The identifiers handed to Handle: bare and routed, with and without
\* characters outside [A-Za-z0-9], with an empty part on either side.
MessageIDs ==
    { <<>>, <<"a">>, <<"a", "_">>, <<"_">>, <<"Z", "7">>,
      <<"a", ".", "a">>, <<"a", ".", "Z", "7">>, <<"a", ".", "a", "_">>,
      <<"a", ".">>, <<"a", ".", "a", ".", "a">>, <<"_", ".", "a">>,
      <<".", "a">> }
\* The services that register, and the names, handlers and argument types
\* that are bound.
ServiceNames == {<<"a">>}
Handlers == {"h1", "h2"}
Binds ==
    { [name |-> <<"a">>, h |-> "h1", type_ |-> "*Args"],
      [name |-> <<"a">>, h |-> "h2", type_ |-> "*Package"],
      [name |-> <<"a", "_">>, h |-> "h1", type_ |-> "*Args"] }
\* Payloads: none, a JSON object that fits Args, one whose Weight is not a
\* number, and one that is not JSON.
EmptyData == ""
Payloads == {EmptyData, "{\"Weight\":1}", "{\"Weight\":\"x\"}", "{bad"}
Ctxs == [out : {"c1"}, Ssid : {"s1"}, isGateway : BOOLEAN]
\* The calls of Handle tried: every identifier without a payload, and the
\* identifiers of bound names with every payload.
HandleInputs ==
    {<<id, EmptyData>> : id \in MessageIDs}
      \cup {<<b.name, d>> : b \in Binds, d \in Payloads}

ErrInvalidMsgId == "invalid message id"
ErrInvalidRoute == "gateway try to route invalid service"
errInvalidMessageID == "invalid message ID"
ErrJsonSyntax == "json: syntax error"
ErrJsonType == "json: cannot unmarshal string into Go struct field Args.Weight of type int"

\* routeMessage("", messageID): the part before the first "." is the
\* service name and the rest the local name; an identifier without "." is a
\* local name.
FirstDot(id) ==
    IF \E i \in 1..Len(id) : id[i] = "."
      THEN CHOOSE i \in 1..Len(id) : id[i] = "." /\ \A j \in 1..(i - 1) : id[j] # "."
      ELSE 0
routeMessage(server, id) ==
    IF FirstDot(id) = 0
      THEN <<server, id>>
      ELSE <<SubSeq(id, 1, FirstDot(id) - 1), SubSeq(id, FirstDot(id) + 1, Len(id))>>

\* regexp.MatchString("^[A-Za-z0-9]+$", name), line 211.
MatchAlnum(name) == Len(name) >= 1 /\ \A i \in 1..Len(name) : name[i] \in Alnum

\* json.Unmarshal(data, args) for args a new value of type_, lines 241-244.
\* Args has the int field Weight; Package has the fields Id and Body and
\* ignores any other key.
JsonUnmarshal(data, type_) ==
    CASE data = "{}" ->
           [err |-> NoErr, args |-> [type_ |-> type_, Weight |-> 0]]
      [] data = "{\"Weight\":1}" ->
           [err |-> NoErr,
            args |-> [type_ |-> type_, Weight |-> IF type_ = "*Args" THEN 1 ELSE 0]]
      [] data = "{\"Weight\":\"x\"}" ->
           [err |-> IF type_ = "*Args" THEN ErrJsonType ELSE NoErr,
            args |-> [type_ |-> type_, Weight |-> 0]]
      [] OTHER ->
           [err |-> ErrJsonSyntax, args |-> [type_ |-> type_, Weight |-> 0]]

\* Enqueue(ctx, h, args): the item goes to the tail of the execution queue.
Enqueue(q, ctx, h, args) == Append(q, [ctx |-> ctx, h |-> h, args |-> args])

\* CmdSet.RemoveService, lines 171-175.
RemoveService(name) ==
    /\ services' = MapPut(services, name, FALSE)
    /\ hcall' = NoHandle
    /\ UNCHANGED <<e, sessions, execQueue, registered, cmdRest>>

\* CmdSet.RegisterService, lines 177-181.
RegisterService(name) ==
    /\ services' = MapPut(services, name, TRUE)
    /\ registered' = registered \cup {name}
    /\ hcall' = NoHandle
    /\ UNCHANGED <<e, sessions, execQueue, cmdRest>>

\* CmdSet.RecoverService, lines 183-190.
RecoverService(name) ==
    /\ services' = IF name \in DOMAIN services
                     THEN MapPut(services, name, TRUE)
                     ELSE services
    /\ hcall' = NoHandle
    /\ UNCHANGED <<e, sessions, execQueue, registered, cmdRest>>

\* CmdSet.Bind, lines 192-200.
Bind(name, h, type_) ==
    /\ e' = MapPut(e, name, [h |-> h, type_ |-> type_])
    /\ hcall' = NoHandle
    /\ UNCHANGED <<services, sessions, execQueue, registered, cmdRest>>

\* A client session opens or ends at the session manager.
SessionOpen(ssid) ==
    /\ ssid \notin sessions
    /\ sessions' = sessions \cup {ssid}
    /\ hcall' = NoHandle
    /\ UNCHANGED <<e, services, execQueue, registered, cmdRest>>

SessionEnd(ssid) ==
    /\ ssid \in sessions
    /\ sessions' = sessions \ {ssid}
    /\ hcall' = NoHandle
    /\ UNCHANGED <<e, services, execQueue, registered, cmdRest>>

\* The outcome of a Handle call: the error returned, the calls of
\* Session.Route made, the items handed to Enqueue and the handlers called.
Outcome(err, fwd, enq, run) == [err |-> err, fwd |-> fwd, enq |-> enq, run |-> run]

\* The identifier test with the pattern ^[A-Za-z0-9]*$, which lets the
\* empty name through.
GatewayRejectsNameStar(ctx, name) ==
    ctx.isGateway /\ \E i \in 1..Len(name) : name[i] \notin Alnum

\* Lines 210-215: whether the gateway's identifier test refuses the name.
GatewayRejectsName(ctx, name) == ctx.isGateway /\ ~MatchAlnum(name)

\* The route test asking whether the service is known, not whether it is
\* active.
GatewayRejectsUnknownRoute(ctx, serverName) ==
    ctx.isGateway /\ serverName \notin DOMAIN services

\* Lines 223-228: whether the gateway's route test refuses the service.
GatewayRejectsRoute(ctx, serverName) ==
    ctx.isGateway /\ MapGet(services, serverName, FALSE) = FALSE

\* Lines 230-233: the message goes to the caller's session, if there is one.
RouteToSession(ctx, serverName, name, data) ==
    Outcome(NoErr,
            IF ctx.Ssid \in sessions
              THEN <<[Ssid |-> ctx.Ssid, server |-> serverName, name |-> name,
                      data |-> data]>>
              ELSE <<>>,
            <<>>, <<>>)

\* Local dispatch that drops the error of json.Unmarshal.
LocalDispatchNoDecodeCheck(ctx, name, data) ==
    IF name \notin DOMAIN e
      THEN Outcome(errInvalidMessageID, <<>>, <<>>, <<>>)
      ELSE Outcome(NoErr, <<>>,
                   <<[h |-> e[name].h,
                      args |-> JsonUnmarshal(data, e[name].type_).args]>>, <<>>)

\* Lines 236-247: a local message is decoded and queued.
LocalDispatch(ctx, name, data) ==
    IF name \notin DOMAIN e
      THEN Outcome(errInvalidMessageID, <<>>, <<>>, <<>>)
      ELSE LET u == JsonUnmarshal(data, e[name].type_)
           IN IF u.err # NoErr
                THEN Outcome(u.err, <<>>, <<>>, <<>>)
                ELSE Outcome(NoErr, <<>>, <<[h |-> e[name].h, args |-> u.args]>>, <<>>)

\* CmdSet.Handle, lines 202-248.
HandleResult(ctx, messageID, data0) ==
    LET data == IF data0 = EmptyData THEN "{}" ELSE data0
        serverName == routeMessage(<<>>, messageID)[1]
        name == routeMessage(<<>>, messageID)[2]
    IN IF GatewayRejectsName(ctx, name)
         THEN Outcome(ErrInvalidMsgId, <<>>, <<>>, <<>>)
         ELSE IF Len(serverName) > 0
           THEN IF GatewayRejectsRoute(ctx, serverName)
                  THEN Outcome(ErrInvalidRoute, <<>>, <<>>, <<>>)
                  ELSE RouteToSession(ctx, serverName, name, data)
           ELSE LocalDispatch(ctx, name, data)

Handle(ctx, messageID, data) ==
    /\ Len(execQueue) < MaxQueue
    /\ LET r == HandleResult(ctx, messageID, data)
       IN /\ hcall' = [op |-> "Handle", ctx |-> ctx, id |-> messageID,
                       data |-> data, err |-> r.err, fwd |-> r.fwd, run |-> r.run]
          /\ execQueue' = IF r.enq = <<>>
                            THEN execQueue
                            ELSE Enqueue(execQueue, ctx, r.enq[1].h, r.enq[1].args)
    /\ UNCHANGED <<e, services, sessions, registered, cmdRest>>

\* RunOnce takes the queued items off the queue; their handlers run on the
\* thread that called it.
RunOnceAll ==
    /\ execQueue # <<>>
    /\ execQueue' = <<>>
    /\ hcall' = NoHandle
    /\ UNCHANGED <<e, services, sessions, registered, cmdRest>>

NextCmd ==
    \/ \E b \in Binds : Bind(b.name, b.h, b.type_)
    \/ \E n \in ServiceNames : RegisterService(n)
    \/ \E n \in ServiceNames : RemoveService(n)
    \/ \E n \in ServiceNames : RecoverService(n)
    \/ \E s \in {"s1"} : SessionOpen(s)
    \/ \E s \in {"s1"} : SessionEnd(s)
    \/ \E ctx \in Ctxs, in \in HandleInputs : Handle(ctx, in[1], in[2])
    \/ RunOnceAll

SpecCmd == Init /\ [][NextCmd]_vars

\* The parts of the identifier of the Handle call a step makes.
HServer == routeMessage(<<>>, hcall'.id)[1]
HName == routeMessage(<<>>, hcall'.id)[2]
HData == IF hcall'.data = EmptyData THEN "{}" ELSE hcall'.data
\* The local name is empty or holds a character outside [A-Za-z0-9].
BadName(name) == name = <<>> \/ \E i \in 1..Len(name) : name[i] \notin Alnum
\* The call forwarded the message, once, to the caller's session.
Forwarded ==
    hcall'.fwd = <<[Ssid |-> hcall'.ctx.Ssid, server |-> HServer, name |-> HName,
                    data |-> HData]>>
\* The call forwarded it if the caller's session exists, and not otherwise.
ForwardedIfSession ==
    IF hcall'.ctx.Ssid \in sessions THEN Forwarded ELSE hcall'.fwd = <<>>

\* C6 as stated: a routed identifier whose local name is empty or has a
\* character outside [A-Za-z0-9] is refused, forwarded nowhere and not
\* queued when the caller is a gateway, and is forwarded without error when
\* the caller is not.
C6_AsStated ==
    [][(hcall'.op = "Handle" /\ HServer # <<>> /\ BadName(HName)) =>
          IF hcall'.ctx.isGateway
            THEN /\ hcall'.err = ErrInvalidMsgId
                 /\ hcall'.fwd = <<>>
                 /\ execQueue' = execQueue
            ELSE /\ hcall'.err = NoErr
                 /\ Forwarded]_vars

\* C6, amended: as C6_AsStated, except that the call of a caller that is
\* not a gateway returns no error and forwards the message when the
\* caller's session exists, and forwards nothing when it does not.
C6_GatewayIdValidation ==
    [][(hcall'.op = "Handle" /\ HServer # <<>> /\ BadName(HName)) =>
          IF hcall'.ctx.isGateway
            THEN /\ hcall'.err = ErrInvalidMsgId
                 /\ hcall'.fwd = <<>>
                 /\ execQueue' = execQueue
            ELSE /\ hcall'.err = NoErr
                 /\ ForwardedIfSession
                 /\ execQueue' = execQueue]_vars

\* C6's case: a gateway's call for a.a_ was refused although service a is
\* active and the session exists.
C6_Witness ==
    /\ hcall.op = "Handle"
    /\ hcall.ctx.isGateway
    /\ hcall.id = <<"a", ".", "a", "_">>
    /\ hcall.err = ErrInvalidMsgId
    /\ MapGet(services, <<"a">>, FALSE)
    /\ "s1" \in sessions

Decodes(name, data) ==
    name \in DOMAIN e /\ JsonUnmarshal(data, e[name].type_).err = NoErr
\* The call put exactly one item, for the bound handler and the decoded
\* argument, at the tail of the execution queue and returned no error.
EnqueuedOne ==
    /\ hcall'.err = NoErr
    /\ execQueue' = Append(execQueue,
                           [ctx |-> hcall'.ctx, h |-> e[HName].h,
                            args |-> JsonUnmarshal(HData, e[HName].type_).args])

\* C8 as stated: Handle calls no handler; it queues one item and returns
\* success exactly when the identifier has no service name, the local name
\* is bound and the payload decodes, and queues nothing otherwise.
C8_AsStated ==
    [][hcall'.op = "Handle" =>
          /\ hcall'.run = <<>>
          /\ IF HServer = <<>> /\ Decodes(HName, HData)
               THEN EnqueuedOne
               ELSE execQueue' = execQueue]_vars

\* C8, amended: as C8_AsStated, with one more condition for queueing: the
\* caller is not a gateway, or the local name matches ^[A-Za-z0-9]+$.  A
\* gateway's local message whose bound name has another character is
\* refused like a routed one.
C8_EnqueueIffLocalDispatch ==
    [][hcall'.op = "Handle" =>
          /\ hcall'.run = <<>>
          /\ IF /\ HServer = <<>>
                /\ Decodes(HName, HData)
                /\ (~hcall'.ctx.isGateway \/ MatchAlnum(HName))
               THEN EnqueuedOne
               ELSE /\ execQueue' = execQueue
                    /\ (HServer = <<>> => hcall'.err # NoErr)]_vars

\* C8's case: a local call for the bound name a with a payload that fits
\* was queued with the decoded argument.
C8_Witness ==
    /\ hcall.op = "Handle"
    /\ hcall.id = <<"a">>
    /\ hcall.data = "{\"Weight\":1}"
    /\ hcall.err = NoErr
    /\ execQueue # <<>>
    /\ execQueue[Len(execQueue)].h = "h1"
    /\ execQueue[Len(execQueue)].args.Weight = 1

\* C14: a second Bind of an identifier keeps the first registration: the
\* entry of a bound identifier, handler and argument type, is never changed
\* by a later step, so Handle goes on to queue the first handler.
C14_FirstBindKept ==
    [][\A n \in DOMAIN e : n \in DOMAIN e' /\ e'[n] = e[n]]_vars

\* C19: a service name is active only if RegisterService was called for it
\* at some earlier point; RecoverService never activates a name that was
\* never registered, also after RemoveService was called for that name.
C19_ActiveOnlyIfRegistered ==
    \A n \in DOMAIN services : services[n] => n \in registered

(***************************************************************************)
(* SpecQueue: every connection thread hands the frames it reads to Handle, *)
(* which queues an item for each; the main thread calls RunOnce in a loop. *)
(* A handler may panic.                                                    *)
(***************************************************************************)
\* Frames each connection thread reads.
MaxFrames == 2

\* The handlers that panic when they are run.
PanicHandlers == {"h2"}
\* The context of connection c's thread and the argument of its k-th frame.
ConnCtx(c) == [out |-> c, Ssid |-> "s1", isGateway |-> FALSE]
FrameArgs(k) == [type_ |-> "*Args", Weight |-> k]
QItem(c, h, k) == [ctx |-> ConnCtx(c), h |-> h, args |-> FrameArgs(k)]

\* The sequence s with x put in before place i.
InsertAt(s, i, x) == SubSeq(s, 1, i - 1) \o <<x>> \o SubSeq(s, i, Len(s))

\* Handle queueing from a thread of its own (go Enqueue(...)): the item can
\* overtake items queued before it.
ConnEnqueueAsync(c, h) ==
    /\ mainPc # "exited"
    /\ nframes[c] < MaxFrames
    /\ nframes' = [nframes EXCEPT ![c] = @ + 1]
    /\ \E i \in 1..(Len(execQueue) + 1) :
          execQueue' = InsertAt(execQueue, i, QItem(c, h, nframes[c] + 1))
    /\ enqLog' = Append(enqLog, QItem(c, h, nframes[c] + 1))
    /\ UNCHANGED <<mainPc, batch, active, executed, logged, queueRest>>

\* Connection c's thread reads its next frame, bound to handler h, and
\* Handle queues it: Enqueue(ctx, e.h, args), gateway.go:246-247.
ConnEnqueue(c, h) ==
    /\ mainPc # "exited"
    /\ nframes[c] < MaxFrames
    /\ nframes' = [nframes EXCEPT ![c] = @ + 1]
    /\ execQueue' = Enqueue(execQueue, ConnCtx(c), h, FrameArgs(nframes[c] + 1))
    /\ enqLog' = Append(enqLog, QItem(c, h, nframes[c] + 1))
    /\ UNCHANGED <<mainPc, batch, active, executed, logged, queueRest>>

\* One pass of main's loop, part_000:31-35: util.TickTimerRun(), then the
\* call of cmd.RunOnce(), which takes what is queued.
MainRunOnce ==
    /\ mainPc = "loop"
    /\ mainPc' = "RunOnce"
    /\ batch' = execQueue
    /\ execQueue' = <<>>
    /\ UNCHANGED <<active, executed, logged, nframes, enqLog, queueRest>>

\* RunOnce calls the handler of the next item it took; the call before it
\* has returned.
HandlerStart ==
    /\ mainPc = "RunOnce"
    /\ batch # <<>>
    /\ active = {}
    /\ active' = active \cup {Head(batch)}
    /\ executed' = Append(executed, Head(batch))
    /\ batch' = Tail(batch)
    /\ UNCHANGED <<mainPc, execQueue, logged, nframes, enqLog, queueRest>>

\* The handler returns.
HandlerReturn ==
    /\ mainPc = "RunOnce"
    /\ \E it \in active :
          /\ it.h \notin PanicHandlers
          /\ active' = active \ {it}
    /\ UNCHANGED <<mainPc, batch, execQueue, executed, logged, nframes, enqLog,
                   queueRest>>

\* The handler panics.  The panic unwinds RunOnce and main's loop to the
\* deferred function of main, part_000:21-29, which recovers and logs it;
\* main then returns, and the process ends with it.
HandlerPanic ==
    /\ mainPc = "RunOnce"
    /\ \E it \in active :
          /\ it.h \in PanicHandlers
          /\ active' = active \ {it}
    /\ logged' = logged + 1
    /\ mainPc' = "exited"
    /\ UNCHANGED <<batch, execQueue, executed, nframes, enqLog, queueRest>>

\* RunOnce has run everything it took and returns to main's loop.
RunOnceReturn ==
    /\ mainPc = "RunOnce"
    /\ batch = <<>>
    /\ active = {}
    /\ mainPc' = "loop"
    /\ UNCHANGED <<batch, active, execQueue, executed, logged, nframes, enqLog,
                   queueRest>>

MainStep ==
    \/ MainRunOnce
    \/ HandlerStart
    \/ HandlerReturn
    \/ HandlerPanic
    \/ RunOnceReturn

NextQueue ==
    \/ \E c \in Conns, h \in Handlers : ConnEnqueue(c, h)
    \/ MainStep

SpecQueue == Init /\ [][NextQueue]_vars

\* The main thread is scheduled as long as it can take a step.
FairSpecQueue == SpecQueue /\ WF_vars(MainStep)

\* s is a sequence without repeated elements.
NoRepeats(s) == \A i, j \in 1..Len(s) : s[i] = s[j] => i = j

C10_LoopResumes == logged > 0 => mainPc \in {"loop", "RunOnce"}

\* C10, as what it promises the queued items: every item queued is at some
\* time run, also behind an item whose handler panicked.
C10_EventuallyExecuted ==
    \A c \in Conns, h \in Handlers, k \in 1..MaxFrames :
        []((\E i \in 1..Len(enqLog) : enqLog[i] = QItem(c, h, k))
             => <>(\E i \in 1..Len(executed) : executed[i] = QItem(c, h, k)))

(***************************************************************************)
(* The router: its handlers (router/handle.go) run one at a time on the    *)
(* thread that drains the execution queue.  Addresses are sequences of     *)
(* one-character strings, so that they can be split and joined.            *)
(***************************************************************************)
\* The connections servers hold to the router, in the order the model
\* ranges over gRouter.gateways, and the remote address of each.
RouterConns == {"r1", "r2", "r3", "r4"}
ConnOrder == <<"r1", "r2", "r3", "r4">>
RemoteAddr(out) ==
    CASE out = "r1" -> <<"p", ":", "5">>
      [] out = "r2" -> <<"q", ":", "5">>
      [] out = "r3" -> <<"r", ":", "5">>
      [] OTHER -> <<"s", ":", "5">>

\* net.SplitHostPort for addresses without brackets: the port follows the
\* last colon; an address with no colon, or with a colon in the host, is an
\* error and gives an empty host and port.
LastColon(hostport) ==
    IF \E i \in 1..Len(hostport) : hostport[i] = ":"
      THEN CHOOSE i \in 1..Len(hostport) :
               hostport[i] = ":" /\ \A j \in (i + 1)..Len(hostport) : hostport[j] # ":"
      ELSE 0
SplitHostPort(hostport) ==
    LET i == LastColon(hostport) IN
    IF i = 0 \/ \E j \in 1..(i - 1) : hostport[j] = ":"
      THEN [host |-> <<>>, port |-> <<>>]
      ELSE [host |-> SubSeq(hostport, 1, i - 1),
            port |-> SubSeq(hostport, i + 1, Len(hostport))]

\* C2S_Register, lines 31-39: the address kept for the server.
RegisterAddr(out, ServerAddr) ==
    LET hp == SplitHostPort(ServerAddr)
        host == IF hp.host = <<>> THEN SplitHostPort(RemoteAddr(out)).host ELSE hp.host
    IN  IF hp.port # <<>> THEN host \o <<":">> \o hp.port ELSE <<>>

\* A message written with WriteJSON to connection `to`.
Msg(to, id, name, data, addr) ==
    [to |-> to, id |-> id, Name |-> name, Data |-> data, Address |-> addr]

\* C2S_Register, lines 44-50, with the address kept as it was given.
NewServerRawAddr(out, args) ==
    [out |-> out, name |-> args.ServerName, addr |-> args.ServerAddr,
     data |-> args.ServerData, typ |-> args.ServerType, weight |-> 0]

\* C2S_Register, lines 44-50: newServer; its weight is the zero value.
NewServer(out, args) ==
    [out |-> out, name |-> args.ServerName,
     addr |-> RegisterAddr(out, args.ServerAddr),
     data |-> args.ServerData, typ |-> args.ServerType, weight |-> 0]

\* The place of the entry named name in the table, 0 if there is none.
IndexOf(tbl, name) ==
    IF \E i \in 1..Len(tbl) : tbl[i].name = name
      THEN CHOOSE i \in 1..Len(tbl) : tbl[i].name = name
      ELSE 0
\* gRouter.GetServer(name) # nil, and the entry it returns.
HasServer(tbl, name) == IndexOf(tbl, name) # 0
GetServer(tbl, name) == tbl[IndexOf(tbl, name)]
\* gRouter.GetServerAddr(name): the entry's address, empty for no entry.
GetServerAddr(tbl, name) ==
    IF HasServer(tbl, name) THEN GetServer(tbl, name).addr ELSE <<>>

\* gRouter.AddServer(server): upsert by name.  A new name is added as
\* given; for a known name the entry takes the new address, data and
\* connection in place and keeps its type and weight.  An entry of type
\* gateway is put in the gateway list under its connection.
AddServer(tbl, gws, server) ==
    LET i == IndexOf(tbl, server.name)
        t == IF i = 0
               THEN Append(tbl, server)
               ELSE [tbl EXCEPT ![i].out = server.out, ![i].addr = server.addr,
                                ![i].data = server.data]
        entry == GetServer(t, server.name)
    IN  [servers |-> t,
         gateways |-> IF entry.typ = "gateway"
                        THEN MapPut(gws, entry.out, entry.name)
                        ELSE gws]

\* The entries of gRouter.gateways, in the order ranged over.
GatewayList(tbl, gws) ==
    LET InList(c) == c \in DOMAIN gws
        keys == SelectSeq(ConnOrder, InList)
    IN  [k \in 1..Len(keys) |-> GetServer(tbl, gws[keys[k]])]
\* The names of the entries in the gateway list.
GatewayNames(gws) == {gws[c] : c \in DOMAIN gws}

\* gRouter.GetBestGateway(): the addresses it may return, that of a gateway
\* of the least weight, whichever the iteration meets first; the empty
\* address when there is no gateway.
GetBestGateway(tbl, gws) ==
    IF DOMAIN gws = {}
      THEN {<<>>}
      ELSE {GetServer(tbl, n).addr :
              n \in {g \in GatewayNames(gws) :
                       \A m \in GatewayNames(gws) :
                           GetServer(tbl, g).weight <= GetServer(tbl, m).weight}}

\* C2S_Register, lines 53-60: the catalogue for a center server.
Catalogue(newServer, tbl) ==
    IF newServer.typ = "center"
      THEN [i \in 1..Len(tbl) |->
              Msg(newServer.out, "S2C_AddGame", tbl[i].name, tbl[i].data, <<>>)]
      ELSE <<>>

\* Lines 61-68 without the test of the name.
CenterNotifyAll(newServer, tbl) ==
    LET IsCenter(sv) == sv.typ = "center"
        cs == SelectSeq(tbl, IsCenter)
    IN  [i \in 1..Len(cs) |->
           Msg(cs[i].out, "S2C_AddGame", newServer.name, newServer.data, <<>>)]

\* C2S_Register, lines 61-68: the other center servers learn of newServer.
CenterNotify(newServer, tbl) ==
    LET IsOther(sv) == sv.typ = "center" /\ sv.name # newServer.name
        cs == SelectSeq(tbl, IsOther)
    IN  [i \in 1..Len(cs) |->
           Msg(cs[i].out, "S2C_AddGame", newServer.name, newServer.data, <<>>)]

\* C2S_Register, lines 71-83: a gateway is told of every server; the
\* gateways are told of a server of another type that has an address.
GatewayNotify(newServer, tbl, gws) ==
    IF newServer.typ = "gateway"
      THEN [i \in 1..Len(tbl) |->
              Msg(newServer.out, "FUNC_RegisterServiceInGateway", tbl[i].name, "", <<>>)]
      ELSE IF newServer.addr # <<>>
             THEN LET gl == GatewayList(tbl, gws)
                  IN  [i \in 1..Len(gl) |->
                         Msg(gl[i].out, "FUNC_RegisterServiceInGateway",
                             newServer.name, "", <<>>)]
             ELSE <<>>
\* The pairs <<G, S>> those messages add: gateway G was told of server S.
GatewayTold(newServer, tbl, gws) ==
    IF newServer.typ = "gateway"
      THEN {<<newServer.name, tbl[i].name>> : i \in 1..Len(tbl)}
      ELSE IF newServer.addr # <<>>
             THEN {<<g, newServer.name>> : g \in GatewayNames(gws)}
             ELSE {}

\* Everything C2S_Register writes, lines 42-83, given the tables as
\* AddServer left them.
RegisterSent(newServer, tbl, gws) ==
    <<Msg(newServer.out, "C2S_RegisterOk", "", "", <<>>)>>
      \o Catalogue(newServer, tbl)
      \o CenterNotify(newServer, tbl)
      \o GatewayNotify(newServer, tbl, gws)

\* C2S_Register, lines 29-84.
C2S_Register(out, args) ==
    LET newServer == NewServer(out, args)
        r == AddServer(servers, gateways, newServer)
    IN  /\ servers' = r.servers
        /\ gateways' = r.gateways
        /\ notified' = notified \cup GatewayTold(newServer, r.servers, r.gateways)
        /\ rcall' = [op |-> "C2S_Register", out |-> out, args |-> args,
                     sent |-> RegisterSent(newServer, r.servers, r.gateways)]
        /\ UNCHANGED routerRest

\* C2S_GetServerAddr, lines 86-93.
C2S_GetServerAddr(out, args) ==
    /\ rcall' = [op |-> "C2S_GetServerAddr", out |-> out, args |-> args,
                 sent |-> <<Msg(out, "S2C_GetServerAddr", args.ServerName, "",
                                GetServerAddr(servers, args.ServerName))>>]
    /\ UNCHANGED <<servers, gateways, notified, routerRest>>

\* Lines 105-110 without the test of the connection.
ReportWeightAll(tbl, gws, out, weight) ==
    [i \in 1..Len(tbl) |->
        IF tbl[i].name \in GatewayNames(gws)
          THEN [tbl[i] EXCEPT !.weight = weight]
          ELSE tbl[i]]

\* C2S_Concurrent, lines 105-110: the gateways of the reporting connection
\* take the reported weight.
ReportWeight(tbl, gws, out, weight) ==
    [i \in 1..Len(tbl) |->
        IF tbl[i].name \in GatewayNames(gws) /\ tbl[i].out = out
          THEN [tbl[i] EXCEPT !.weight = weight]
          ELSE tbl[i]]

\* C2S_Concurrent with the best gateway taken before the weights are
\* updated.
C2S_ConcurrentStale(out, args) ==
    LET t == ReportWeight(servers, gateways, out, args.Weight) IN
    \E addr \in GetBestGateway(servers, gateways) :
        /\ servers' = t
        /\ rcall' = [op |-> "C2S_Concurrent", out |-> out, args |-> args,
                     sent |-> IF HasServer(t, "login")
                                THEN <<Msg(GetServer(t, "login").out,
                                           "S2C_GetBestGateway", "", "", addr)>>
                                ELSE <<>>]
        /\ UNCHANGED <<gateways, notified, routerRest>>

\* C2S_Concurrent, lines 103-118.
C2S_Concurrent(out, args) ==
    LET t == ReportWeight(servers, gateways, out, args.Weight) IN
    \E addr \in GetBestGateway(t, gateways) :
        /\ servers' = t
        /\ rcall' = [op |-> "C2S_Concurrent", out |-> out, args |-> args,
                     sent |-> IF HasServer(t, "login")
                                THEN <<Msg(GetServer(t, "login").out,
                                           "S2C_GetBestGateway", "", "", addr)>>
                                ELSE <<>>]
        /\ UNCHANGED <<gateways, notified, routerRest>>

\* The names of the table, each once, as the keys of prefixMap.
DistinctNames(tbl) ==
    LET First(i) == \A j \in 1..(i - 1) : tbl[j].name # tbl[i].name
        idx == SelectSeq([i \in 1..Len(tbl) |-> i], First)
    IN  [k \in 1..Len(idx) |-> tbl[idx[k]].name]

\* Lines 123-132 with the test servers[0] == "*" alone.
RouteTargetsAnyStar(tbl, ServerList) ==
    IF Len(ServerList) >= 1 /\ ServerList[1] = "*"
      THEN DistinctNames(tbl)
      ELSE ServerList

\* C2S_Route, lines 122-132: the names the message goes to.
RouteTargets(tbl, ServerList) ==
    IF Len(ServerList) = 1 /\ ServerList[1] = "*"
      THEN DistinctNames(tbl)
      ELSE ServerList

\* C2S_Route, lines 120-139.
C2S_Route(out, args) ==
    LET names == RouteTargets(servers, args.ServerList)
        Known(n) == HasServer(servers, n)
        known == SelectSeq(names, Known)
    IN  /\ rcall' = [op |-> "C2S_Route", out |-> out, args |-> args,
                     sent |-> [k \in 1..Len(known) |->
                                 Msg(GetServer(servers, known[k]).out,
                                     args.Name, "", args.Data, <<>>)]]
        /\ UNCHANGED <<servers, gateways, notified, routerRest>>

\* The arguments of the calls tried.
RegArgs(name, addr, data, typ) ==
    [NoArgs EXCEPT !.ServerName = name, !.ServerAddr = addr,
                   !.ServerData = data, !.ServerType = typ]
AddrArgs(name) == [NoArgs EXCEPT !.ServerName = name]
WeightArgs(w) == [NoArgs EXCEPT !.Weight = w]
FwdArgs(list) == [NoArgs EXCEPT !.ServerList = list, !.Name = "m", !.Data = "p"]

(***************************************************************************)
(* SpecRouter: servers of every type register and register again, under   *)
(* another connection, address, data or type.                              *)
(***************************************************************************)
RegisterInputs ==
    { <<"r1", RegArgs("gw", <<"h", ":", "8">>, "d1", "gateway")>>,
      <<"r1", RegArgs("gw", <<":", "8">>, "d2", "generic")>>,
      <<"r3", RegArgs("s1", <<>>, "d1", "generic")>>,
      <<"r2", RegArgs("s1", <<"g", ":", "8">>, "d2", "center")>>,
      <<"r4", RegArgs("s2", <<>>, "d1", "generic")>>,
      <<"r4", RegArgs("s2", <<"h">>, "d2", "center")>> }
AddrInputs == { <<"r4", AddrArgs("s1")>> }
WeightInputs == { <<"r1", WeightArgs(2)>> }
RouteInputs ==
    { <<"r1", FwdArgs(<<"*">>)>>, <<"r1", FwdArgs(<<"s1", "nope", "s1">>)>>,
      <<"r1", FwdArgs(<<"*", "gw">>)>> }

NextRouter ==
    \/ \E in \in RegisterInputs : C2S_Register(in[1], in[2])
    \/ \E in \in AddrInputs : C2S_GetServerAddr(in[1], in[2])
    \/ \E in \in WeightInputs : C2S_Concurrent(in[1], in[2])
    \/ \E in \in RouteInputs : C2S_Route(in[1], in[2])

SpecRouter == Init /\ [][NextRouter]_vars

(***************************************************************************)
(* SpecBalance: three gateways and the login server register, and every    *)
(* connection reports weights.                                             *)
(***************************************************************************)
BalanceRegisterInputs ==
    { <<"r1", RegArgs("A", <<"a", ":", "1">>, "d1", "gateway")>>,
      <<"r2", RegArgs("B", <<"b", ":", "1">>, "d1", "gateway")>>,
      <<"r3", RegArgs("C", <<"c", ":", "1">>, "d1", "gateway")>>,
      <<"r4", RegArgs("login", <<>>, "d1", "generic")>> }
\* A reports 5 and 0, B and C report 2, and the login server's connection,
\* which is no gateway's, reports 2.
BalanceWeightInputs ==
    { <<"r1", WeightArgs(5)>>, <<"r1", WeightArgs(0)>>, <<"r2", WeightArgs(2)>>,
      <<"r3", WeightArgs(2)>>, <<"r4", WeightArgs(2)>> }

NextBalance ==
    \/ \E in \in BalanceRegisterInputs : C2S_Register(in[1], in[2])
    \/ \E in \in BalanceWeightInputs : C2S_Concurrent(in[1], in[2])
    \/ \E in \in { <<"r4", AddrArgs("A")>> } : C2S_GetServerAddr(in[1], in[2])
    \/ \E in \in { <<"r4", FwdArgs(<<"*">>)>> } : C2S_Route(in[1], in[2])

SpecBalance == Init /\ [][NextBalance]_vars

\* Address a is the answer the selection policy allows when the gateways
\* named in gws have the weights W: the empty address when there is no
\* gateway, else the address of a gateway of the least weight.
LeastWeightAddr(a, tbl, gws, W(_)) ==
    IF GatewayNames(gws) = {}
      THEN a = <<>>
      ELSE \E g \in GatewayNames(gws) :
              /\ GetServer(tbl, g).addr = a
              /\ \A m \in GatewayNames(gws) : W(g) <= W(m)

\* C11: GetBestGateway returns the address of a gateway of the gateway list
\* whose current weight is the least of the list, and the empty address
\* when the list is empty; the current weight of a gateway is the weight
\* last reported on its connection: after a report of weight w on
\* connection c, the address pushed to the login server and every answer of
\* GetBestGateway are least for the weights in which the gateways of c have
\* w and the others the weight they had.
C11_BestGatewayLeastWeight ==
    /\ [](LET W(n) == GetServer(servers, n).weight
          IN  \A a \in GetBestGateway(servers, gateways) :
                  LeastWeightAddr(a, servers, gateways, W))
    /\ [][rcall'.op = "C2S_Concurrent" =>
            LET W(n) == IF GetServer(servers, n).out = rcall'.out
                          THEN rcall'.args.Weight
                          ELSE GetServer(servers, n).weight
            IN  /\ \A a \in GetBestGateway(servers', gateways') :
                       LeastWeightAddr(a, servers, gateways, W)
                /\ \A i \in 1..Len(rcall'.sent) :
                       LeastWeightAddr(rcall'.sent[i].Address, servers, gateways, W)]_vars

\* C11's case: B and C have weight 2, A has just reported 0 after it had
\* reported 5, and the login server was sent A's address.
C11_Witness ==
    /\ rcall.op = "C2S_Concurrent"
    /\ rcall.out = "r1"
    /\ rcall.args.Weight = 0
    /\ GatewayNames(gateways) = {"A", "B", "C"}
    /\ GetServer(servers, "B").weight = 2
    /\ GetServer(servers, "C").weight = 2
    /\ rcall.sent = <<Msg("r4", "S2C_GetBestGateway", "", "", <<"a", ":", "1">>)>>

\* The names in the server table.
ServerNames(tbl) == {tbl[i].name : i \in 1..Len(tbl)}

\* C12: the server table holds one entry per registered name; a
\* C2S_Register leaves in the entry of its name the address it resolved
\* (the given host, or the connection's remote host, with the given port;
\* empty without a port), its data and its connection, adds an entry only
\* for a new name and leaves the address, data and connection of every
\* other entry alone; a C2S_GetServerAddr answers with the address in the
\* entry of the name, empty for no entry, and changes nothing.
C12_RegistryUpsert ==
    /\ [](\A i, j \in 1..Len(servers) : servers[i].name = servers[j].name => i = j)
    /\ [][rcall'.op = "C2S_Register" =>
            LET name == rcall'.args.ServerName IN
            /\ ServerNames(servers') = ServerNames(servers) \cup {name}
            /\ GetServer(servers', name).out = rcall'.out
            /\ GetServer(servers', name).addr
                 = RegisterAddr(rcall'.out, rcall'.args.ServerAddr)
            /\ GetServer(servers', name).data = rcall'.args.ServerData
            /\ \A n \in ServerNames(servers) \ {name} :
                   GetServer(servers', n) = GetServer(servers, n)]_vars
    /\ [][rcall'.op = "C2S_GetServerAddr" =>
            /\ rcall'.sent =
                 <<Msg(rcall'.out, "S2C_GetServerAddr", rcall'.args.ServerName, "",
                       IF rcall'.args.ServerName \in ServerNames(servers)
                         THEN GetServer(servers, rcall'.args.ServerName).addr
                         ELSE <<>>)>>
            /\ servers' = servers
            /\ gateways' = gateways]_vars

\* C12's case: s1 registered on r3 without an address and then on r2 with
\* g:8; the table has one entry for s1, and a lookup was answered g:8.
C12_Witness ==
    /\ rcall.op = "C2S_GetServerAddr"
    /\ rcall.args.ServerName = "s1"
    /\ rcall.sent[1].Address = <<"g", ":", "8">>
    /\ HasServer(servers, "s1")
    /\ GetServer(servers, "s1").typ = "generic"
    /\ GetServer(servers, "s1").out = "r2"
    /\ GetServer(servers, "s1").data = "d2"
    /\ Cardinality({i \in 1..Len(servers) : servers[i].name = "s1"}) = 1

\* How many of the messages in sent are m.
Count(sent, m) == Cardinality({i \in 1..Len(sent) : sent[i] = m})

\* C13: C2S_Route with the list ["*"] sends the message once for every
\* entry of the server table, to the entry's connection, whether or not the
\* entry is a gateway's; with any other list it sends once for every
\* place of the list that names a registered server, to that server's
\* connection, and passes over the other names; it sends nothing else and
\* leaves the tables as they were.
C13_WildcardRouting ==
    [][rcall'.op = "C2S_Route" =>
         LET list == rcall'.args.ServerList
             m(c) == Msg(c, rcall'.args.Name, "", rcall'.args.Data, <<>>)
             Due(c) ==
                 IF list = <<"*">>
                   THEN Cardinality({n \in ServerNames(servers) :
                                        GetServer(servers, n).out = c})
                   ELSE Cardinality({k \in 1..Len(list) :
                                        /\ list[k] \in ServerNames(servers)
                                        /\ GetServer(servers, list[k]).out = c})
         IN  /\ \A c \in RouterConns : Count(rcall'.sent, m(c)) = Due(c)
             /\ \A i \in 1..Len(rcall'.sent) :
                    \E c \in RouterConns : rcall'.sent[i] = m(c)
             /\ servers' = servers
             /\ gateways' = gateways]_vars

\* C13's case: three servers are registered, gw among them as a gateway,
\* and a message routed to "*" was sent three times, once to each.
C13_Witness ==
    /\ rcall.op = "C2S_Route"
    /\ rcall.args.ServerList = <<"*">>
    /\ Len(servers) = 3
    /\ "gw" \in GatewayNames(gateways)
    /\ Len(rcall.sent) = 3
    /\ \A n \in ServerNames(servers) :
           Count(rcall.sent, Msg(GetServer(servers, n).out, "m", "", "p", <<>>)) = 1

\* C16: whether a gateway has been told of a server does not depend on
\* which of the two registered first: for a gateway G of the gateway list,
\* two other registered servers of the same type that both have, or both
\* lack, an address have both been announced to G or neither has.
C16_SyncIndependentOfOrder ==
    \A G \in GatewayNames(gateways) :
        \A S1, S2 \in ServerNames(servers) \ {G} :
            (/\ GetServer(servers, S1).typ = GetServer(servers, S2).typ
             /\ (GetServer(servers, S1).addr = <<>>)
                  <=> (GetServer(servers, S2).addr = <<>>))
              => (<<G, S1>> \in notified <=> <<G, S2>> \in notified)

\* C17: C2S_Register first writes C2S_RegisterOk to the registering
\* connection.  When the registration gives the type center, that
\* connection is then sent one S2C_AddGame for every entry of the table as
\* it is after the registration; every entry of type center under another
\* name is sent one S2C_AddGame with the name and data of the registration;
\* and no other S2C_AddGame is sent, so none goes to a server that is not a
\* center.
C17_CenterSync ==
    [][rcall'.op = "C2S_Register" =>
         LET out == rcall'.out
             name == rcall'.args.ServerName
             data == rcall'.args.ServerData
             isCenter == rcall'.args.ServerType = "center"
             Others(c) == {n \in ServerNames(servers') \ {name} :
                             /\ GetServer(servers', n).typ = "center"
                             /\ GetServer(servers', n).out = c}
             Due(m) ==
                 (IF /\ isCenter
                     /\ m.to = out
                     /\ m.Name \in ServerNames(servers')
                     /\ m.Data = GetServer(servers', m.Name).data
                    THEN 1 ELSE 0)
                 + (IF m.Name = name /\ m.Data = data
                      THEN Cardinality(Others(m.to)) ELSE 0)
         IN  /\ rcall'.sent[1] = Msg(out, "C2S_RegisterOk", "", "", <<>>)
             /\ Count(rcall'.sent, Msg(out, "C2S_RegisterOk", "", "", <<>>)) = 1
             /\ \A c \in RouterConns, n \in ServerNames(servers'), d \in Datas :
                    LET m == Msg(c, "S2C_AddGame", n, d, <<>>)
                    IN  Count(rcall'.sent, m) = Due(m)
             /\ \A i \in 1..Len(rcall'.sent) :
                    rcall'.sent[i].id = "S2C_AddGame" =>
                        /\ rcall'.sent[i].Name \in ServerNames(servers')
                        /\ rcall'.sent[i].Data \in Datas
                        /\ \/ isCenter /\ rcall'.sent[i].to = out
                           \/ Others(rcall'.sent[i].to) # {}]_vars

\* C17's case: s1 registers as a center on r2 when gw and the center s2 are
\* registered: r2 gets the catalogue of three entries and s2, on r4, one
\* S2C_AddGame for s1.
C17_Witness ==
    /\ rcall.op = "C2S_Register"
    /\ rcall.args.ServerName = "s1"
    /\ rcall.args.ServerType = "center"
    /\ ServerNames(servers) = {"gw", "s1", "s2"}
    /\ GetServer(servers, "s1").typ = "center"
    /\ GetServer(servers, "s2").typ = "center"
    /\ GetServer(servers, "gw").typ = "gateway"
    /\ Count(rcall.sent, Msg("r4", "S2C_AddGame", "s1", "d2", <<>>)) = 1
    /\ Cardinality({i \in 1..Len(rcall.sent) :
                       rcall.sent[i].id = "S2C_AddGame" /\ rcall.sent[i].to = "r2"}) = 3
    /\ \A i \in 1..Len(rcall.sent) :
           rcall.sent[i].id = "S2C_AddGame" => rcall.sent[i].to \in {"r2", "r4"}

\* C18: a C2S_Concurrent on connection c with weight w gives the weight w
\* to the entries of the gateway list whose connection is c, and changes no
\* other weight and no name, address, data, type or connection, nor the
\* gateway list; with no gateway on c no weight changes.  If a server named
\* login is registered, it is sent one S2C_GetBestGateway with a
\* best-gateway address for the weights after the update; if not, nothing
\* is sent.
C18_WeightReport ==
    [][rcall'.op = "C2S_Concurrent" =>
         /\ Len(servers') = Len(servers)
         /\ \A i \in 1..Len(servers) :
                /\ servers'[i].name = servers[i].name
                /\ servers'[i].addr = servers[i].addr
                /\ servers'[i].data = servers[i].data
                /\ servers'[i].typ = servers[i].typ
                /\ servers'[i].out = servers[i].out
                /\ servers'[i].weight =
                     IF /\ servers[i].name \in GatewayNames(gateways)
                        /\ servers[i].out = rcall'.out
                       THEN rcall'.args.Weight
                       ELSE servers[i].weight
         /\ gateways' = gateways
         /\ IF "login" \in ServerNames(servers)
              THEN /\ Len(rcall'.sent) = 1
                   /\ rcall'.sent[1].to = GetServer(servers, "login").out
                   /\ rcall'.sent[1].id = "S2C_GetBestGateway"
                   /\ rcall'.sent[1].Address \in GetBestGateway(servers', gateways')
              ELSE rcall'.sent = <<>>]_vars

\* C18's case: A has weight 5 and C weight 0 when B reports 2; B alone
\* takes the weight, and the login server on r4 is sent C's address.
C18_Witness ==
    /\ rcall.op = "C2S_Concurrent"
    /\ rcall.out = "r2"
    /\ rcall.args.Weight = 2
    /\ ServerNames(servers) = {"A", "B", "C", "login"}
    /\ GetServer(servers, "A").weight = 5
    /\ GetServer(servers, "B").weight = 2
    /\ GetServer(servers, "C").weight = 0
    /\ rcall.sent = <<Msg("r4", "S2C_GetBestGateway", "", "", <<"c", ":", "1">>)>>

\* C20: the type recorded for a name is that of its first registration,
\* and a registration under a known name is answered by that type: the
\* catalogue, the announcements to and from gateways and the place in the
\* gateway list are those of a registration giving the recorded type.
C20_FirstTypeGoverns ==
    [][rcall'.op = "C2S_Register" =>
         LET name == rcall'.args.ServerName
             recorded == GetServer(servers', name).typ
             asRecorded == [NewServer(rcall'.out, rcall'.args) EXCEPT !.typ = recorded]
         IN  /\ name \in ServerNames(servers) =>
                    recorded = GetServer(servers, name).typ
             /\ rcall'.sent = RegisterSent(asRecorded, servers', gateways')
             /\ name \in GatewayNames(gateways') <=> recorded = "gateway"]_vars

(***************************************************************************)
(* SpecCopy: util.DeepCopy (util/copy.go).  A reflect.Value is a record    *)
(* with its kind and, by kind, its number (iv, uv, fv), bool (bv), string  *)
(* (sv), fields (a sequence of name and value), pointee (isNil, elem; for  *)
(* a nil pointer elem is the zero value of the pointee's type) or elements *)
(* (elems; zero is the zero value of the element type).  Field names are   *)
(* sequences of one-character strings.                                     *)
(***************************************************************************)
IntKinds == {"int8", "int16", "int32", "int64", "int"}
UintKinds == {"uint8", "uint16", "uint32", "uint64", "uint"}
FloatKinds == {"float32", "float64"}
UpperCase ==
    {"A", "B", "C", "D", "E", "F", "G", "H", "I", "J", "K", "L", "M",
     "N", "O", "P", "Q", "R", "S", "T", "U", "V", "W", "X", "Y", "Z"}

IntV(k, v) == [kind |-> k, iv |-> v]
UintV(k, v) == [kind |-> k, uv |-> v]
FloatV(k, v) == [kind |-> k, fv |-> v]
BoolV(v) == [kind |-> "bool", bv |-> v]
StringV(v) == [kind |-> "string", sv |-> v]
MapV(v) == [kind |-> "map", mv |-> v]
StructV(fields) == [kind |-> "struct", fields |-> fields]
PtrTo(v) == [kind |-> "ptr", isNil |-> FALSE, elem |-> v]
NilPtr(zero) == [kind |-> "ptr", isNil |-> TRUE, elem |-> zero]
SliceV(elems, zero) == [kind |-> "slice", elems |-> elems, zero |-> zero]
Fld(name, val) == [name |-> name, val |-> val]

\* testKind, copy.go:65-77.
testKind(k) ==
    CASE k \in FloatKinds -> "float64"
      [] k \in IntKinds -> "int64"
      [] k \in UintKinds -> "uint64"
      [] OTHER -> k

\* Value.SetInt, SetUint and SetFloat store the number in the width of the
\* destination: an int8 or int16 wraps, a uint8 or uint16 is taken modulo
\* its range, a float32 keeps 24 bits (numbers here are whole and below
\* 2^25, and the wider kinds hold them all).
SetInt(k, x) ==
    CASE k = "int8" -> ((x + 128) % 256) - 128
      [] k = "int16" -> ((x + 32768) % 65536) - 32768
      [] OTHER -> x
SetUint(k, x) ==
    CASE k = "uint8" -> x % 256
      [] k = "uint16" -> x % 65536
      [] OTHER -> x
SetFloat(k, x) ==
    IF k = "float32" /\ x > 16777216
      THEN IF x % 2 = 0 THEN x
           ELSE IF (x \div 2) % 2 = 0 THEN x - 1 ELSE x + 1
      ELSE x

\* reflect.Indirect: the pointee of a pointer, the zero Value for a nil
\* pointer, the value itself for any other kind.
Indirect(v) ==
    IF v.kind = "ptr" THEN (IF v.isNil THEN Invalid ELSE v.elem) ELSE v

\* Whether a field name is exported, and Value.FieldByName as the place of
\* the field, 0 for none.
Exported(name) == name # <<>> /\ name[1] \in UpperCase
FieldIndex(v, name) ==
    IF \E j \in 1..Len(v.fields) : v.fields[j].name = name
      THEN CHOOSE j \in 1..Len(v.fields) : v.fields[j].name = name
      ELSE 0

RECURSIVE doCopy(_, _, _, _)
RECURSIVE copyInto(_, _, _, _)
RECURSIVE copyFields(_, _, _)

\* doCopy, lines 43-52: the fields of the source, first to i-th, are copied
\* into the fields of the same name of the settable struct t.
copyFields(t, sval, i) ==
    IF i = 0
      THEN t
      ELSE LET t1 == copyFields(t, sval, i - 1)
               sname == sval.fields[i].name
               j == FieldIndex(t1, sname)
           IN  IF j = 0
                 THEN t1
                 ELSE [t1 EXCEPT !.fields[j].val =
                          doCopy(t1.fields[j].val, TRUE, ~Exported(sname),
                                 sval.fields[i].val)]

\* doCopy, lines 26-62: dval, after Indirect, holds t; addr and ro say
\* whether it is addressable and whether it was reached through an
\* unexported field, so that CanSet is addr /\ ~ro.
copyInto(t, addr, ro, sval) ==
    IF ~(addr /\ ~ro)
      THEN t
      ELSE IF testKind(sval.kind) # testKind(t.kind)
             THEN t
             ELSE CASE testKind(sval.kind) = "int64" ->
                         [t EXCEPT !.iv = SetInt(t.kind, sval.iv)]
                    [] testKind(sval.kind) = "uint64" ->
                         [t EXCEPT !.uv = SetUint(t.kind, sval.uv)]
                    [] testKind(sval.kind) = "float64" ->
                         [t EXCEPT !.fv = SetFloat(t.kind, sval.fv)]
                    [] sval.kind = "bool" -> [t EXCEPT !.bv = sval.bv]
                    [] sval.kind = "string" -> [t EXCEPT !.sv = sval.sv]
                    [] sval.kind = "struct" -> copyFields(t, sval, Len(sval.fields))
                    [] sval.kind = "slice" ->
                         IF Len(sval.elems) > 0
                           THEN [t EXCEPT !.elems =
                                   [i \in 1..Len(sval.elems) |->
                                      doCopy(t.zero, TRUE, FALSE, sval.elems[i])]]
                           ELSE t
                    [] OTHER -> t

\* doCopy, lines 17-63: what the location dval holds afterwards.
doCopy(dval, addr, ro, sval) ==
    IF sval.kind = "invalid"
      THEN dval
      ELSE LET d1 == IF dval.kind = "ptr" /\ dval.isNil /\ addr /\ ~ro
                       THEN [dval EXCEPT !.isNil = FALSE]
                       ELSE dval
           IN  IF d1.kind = "ptr"
                 THEN IF d1.isNil
                        THEN d1
                        ELSE [d1 EXCEPT !.elem = copyInto(d1.elem, TRUE, ro, Indirect(sval))]
                 ELSE copyInto(d1, addr, ro, Indirect(sval))

\* DeepCopy, lines 11-15: reflect.ValueOf gives a Value that is neither
\* addressable nor read-only, and the zero Value for nil.
DeepCopy(dst, src) == doCopy(dst, FALSE, FALSE, src)

\* The values built for a call, as TestSructCopy builds a and b1
\* (part_000:103-116).  The nested type T has one int64 field N.
TypeT(n) == StructV(<<Fld(<<"N">>, IntV("int64", n))>>)
SrcN1 == {IntV("int64", 7), IntV("int64", 200)}
SrcP1 == {NilPtr(TypeT(0)), PtrTo(TypeT(3))}
SrcL1 == {SliceV(<<>>, IntV("int64", 0)),
          SliceV(<<IntV("int64", 1), IntV("int64", 2)>>, IntV("int64", 0))}
SrcF1 == {FloatV("float64", 2), FloatV("float64", 16777217)}
SrcStruct(n1, f1, p1, l1) ==
    StructV(<<Fld(<<"N", "1">>, n1),
              Fld(<<"S", "1">>, StringV("s")),
              Fld(<<"B", "1">>, BoolV(TRUE)),
              Fld(<<"F", "1">>, f1),
              Fld(<<"P", "1">>, p1),
              Fld(<<"L", "1">>, l1),
              Fld(<<"M", "1">>, MapV("new")),
              Fld(<<"x", "1">>, IntV("int64", 5)),
              Fld(<<"Q", "1">>, IntV("int64", 9))>>)
DstN1 == {IntV("int8", 0), IntV("int64", 0), StringV("")}
DstP1 == {NilPtr(TypeT(0)), PtrTo(TypeT(9)), TypeT(9)}
DstL1 == {SliceV(<<IntV("int64", 5)>>, IntV("int64", 0)),
          SliceV(<<StringV("e")>>, StringV(""))}
DstStruct(n1, p1, l1) ==
    StructV(<<Fld(<<"N", "1">>, n1),
              Fld(<<"S", "1">>, StringV("")),
              Fld(<<"B", "1">>, BoolV(FALSE)),
              Fld(<<"F", "1">>, FloatV("float32", 0)),
              Fld(<<"P", "1">>, p1),
              Fld(<<"L", "1">>, l1),
              Fld(<<"M", "1">>, MapV("old")),
              Fld(<<"x", "1">>, IntV("int64", 0)),
              Fld(<<"N", "9">>, IntV("int64", 4))>>)
\* What is handed to DeepCopy: pointers to the structs, nil, a nil pointer
\* as source, and a struct passed by value as destination.
SrcValues ==
    {PtrTo(SrcStruct(n1, f1, p1, l1)) :
        n1 \in SrcN1, f1 \in SrcF1, p1 \in SrcP1, l1 \in SrcL1}
      \cup {Invalid, NilPtr(SrcStruct(IntV("int64", 0), FloatV("float64", 0),
                                      NilPtr(TypeT(0)),
                                      SliceV(<<>>, IntV("int64", 0))))}
DstValues ==
    {PtrTo(DstStruct(n1, p1, l1)) : n1 \in DstN1, p1 \in DstP1, l1 \in DstL1}
      \cup {Invalid, DstStruct(IntV("int64", 0), TypeT(9),
                               SliceV(<<IntV("int64", 5)>>, IntV("int64", 0)))}

\* The test builds its values.
NewValues(dst, src) ==
    /\ cdst' = dst
    /\ csrc' = src
    /\ ccall' = [op |-> "none", dst |-> Invalid]
    /\ UNCHANGED copyRest

\* DeepCopy(dst, src) is called on them.
CallDeepCopy ==
    /\ ccall.op = "none"
    /\ cdst' = DeepCopy(cdst, csrc)
    /\ ccall' = [op |-> "DeepCopy", dst |-> cdst]
    /\ UNCHANGED <<csrc, copyRest>>

NextCopy ==
    \/ \E dst \in DstValues, src \in SrcValues : NewValues(dst, src)
    \/ CallDeepCopy

SpecCopy == Init /\ [][NextCopy]_vars

\* The kind under which the claim matches two fields: the numeric kinds by
\* family, bool, string, slice, and struct for a struct or a pointer to one.
MatchKind(v) ==
    CASE testKind(v.kind) \in {"int64", "uint64", "float64"} -> testKind(v.kind)
      [] v.kind \in {"bool", "string", "slice", "struct"} -> v.kind
      [] v.kind = "ptr" /\ v.elem.kind = "struct" -> "struct"
      [] OTHER -> "none"
\* The struct a value of kind struct, or a pointer to one, stands for.
Deref(v) == IF v.kind = "ptr" THEN v.elem ELSE v

RECURSIVE CopiedValue(_, _, _)
RECURSIVE CopiedStruct(_, _, _)

\* Destination struct a is the copy of source struct s into what was b: it
\* has the fields of b; a field that is exported, has a source field of the
\* same name and the same kind as above (a slice being non-empty in the
\* source) holds the copy of the source field; every other field is as it
\* was.
CopiedStruct(b, s, a) ==
    /\ Len(a.fields) = Len(b.fields)
    /\ \A j \in 1..Len(b.fields) :
           LET name == b.fields[j].name
               i == FieldIndex(s, name)
           IN  /\ a.fields[j].name = name
               /\ IF /\ i # 0
                     /\ Exported(name)
                     /\ MatchKind(b.fields[j].val) # "none"
                     /\ MatchKind(b.fields[j].val) = MatchKind(s.fields[i].val)
                     /\ s.fields[i].val.kind = "slice" => s.fields[i].val.elems # <<>>
                    THEN CopiedValue(b.fields[j].val, s.fields[i].val, a.fields[j].val)
                    ELSE a.fields[j].val = b.fields[j].val

\* Destination value a, which was b, equals source value s of the same
\* kind: the same number, bool or string; element by element for a slice;
\* field by field, as above, for a struct or pointer to struct, a nil source
\* pointer leaving the destination as it was.
CopiedValue(b, s, a) ==
    CASE MatchKind(s) = "int64" -> a.kind = b.kind /\ a.iv = s.iv
      [] MatchKind(s) = "uint64" -> a.kind = b.kind /\ a.uv = s.uv
      [] MatchKind(s) = "float64" -> a.kind = b.kind /\ a.fv = s.fv
      [] MatchKind(s) = "bool" -> a.kind = b.kind /\ a.bv = s.bv
      [] MatchKind(s) = "string" -> a.kind = b.kind /\ a.sv = s.sv
      [] MatchKind(s) = "slice" ->
           /\ a.kind = "slice"
           /\ Len(a.elems) = Len(s.elems)
           /\ \A i \in 1..Len(s.elems) :
                  /\ MatchKind(b.zero) = MatchKind(s.elems[i])
                  /\ CopiedValue(b.zero, s.elems[i], a.elems[i])
      [] MatchKind(s) = "struct" ->
           IF Indirect(s).kind = "invalid"
             THEN a = b
             ELSE /\ a.kind = b.kind
                  /\ Indirect(a).kind = "struct"
                  /\ CopiedStruct(Deref(b), Indirect(s), Indirect(a))
      [] OTHER -> a = b

\* C15: after DeepCopy(dst, src), every destination field that is settable
\* and has a source field of its name and kind equals that source field,
\* recursively, and every other destination field is as it was; a call with
\* a nil dst or a nil src changes nothing.
C15_CopyByNameAndKind ==
    ccall.op = "DeepCopy" =>
        IF ccall.dst.kind # "ptr" \/ csrc.kind = "invalid"
          THEN cdst = ccall.dst
          ELSE CopiedValue(ccall.dst, csrc, cdst)

====
